---------------------------- MODULE Spec2Model ----------------------------
(***************************************************************************)
(* A model of the address-book example of src/src/traits.rs: the Person    *)
(* record and its hand-written traits, the two-index AddressBook, the      *)
(* PhoneNumber wrapper and the user-defined Summary traits.                *)
(*                                                                         *)
(* A HashMap is a function with a finite domain, a Vec and a fixed array   *)
(* are sequences, a String is a TLA+ string.  A call that can panic        *)
(* yields an outcome: Ok(v) when it returns v, Panic when it unwinds.      *)
(***************************************************************************)
EXTENDS Integers, Sequences, FiniteSets, TLC

VARIABLES
    book,    \* the AddressBook built by AddressBook::new()
    dbook,   \* the AddressBook built by AddressBook::default()
    added,   \* history: the persons passed to add_person, in call order
    input,   \* the arguments drawn for the calls of the pure functions
    call     \* the last call made: its name, its arguments and its outcome

vars == <<book, dbook, added, input, call>>

----------------------------------------------------------------------------
(* Bounds of the model *)

\* add_person is called at most MaxAdds times on a book
MaxAdds == 3
\* the `lines` argument of the summaries ranges over 0..MaxLines
MaxLines == 11
\* a Vec<Person2> holds at most MaxVecLen persons
MaxVecLen == 2

----------------------------------------------------------------------------
(* Values *)

U8 == 0..255

DEFAULT_PHONE == <<5, 5, 5, 5, 5, 5, 5, 5, 5, 5>>

Names == {"caleb", "alice"}
Ages == {26, 30}
Phones == {DEFAULT_PHONE, <<2, 1, 5, 0, 9, 8, 255, 12, 100, 7>>}
Colors == {"Purple", "Unknown"}

\* struct Person
Person == [name : Names, age : Ages, phone : Phones, favorite_color : Colors]

\* #[derive(Clone)] for Person: a field-by-field copy
clone(p) ==
    [name |-> p.name, age |-> p.age, phone |-> p.phone,
     favorite_color |-> p.favorite_color]

\* the outcome of a call: it returns a value, or it panics and returns nothing
Ok(v) == [kind |-> "ok", value |-> v]
Panic == [kind |-> "panic"]

----------------------------------------------------------------------------
(* HashMap and Vec *)

HashMap_new == [k \in {} |-> {}]
HashMap_default == [k \in {} |-> {}]
Vec_new == << >>

\* HashMap::insert: the value under key k is replaced, the other keys are kept
insert(m, k, v) == [x \in (DOMAIN m) \cup {k} |-> IF x = k THEN v ELSE m[x]]

\* HashMap::get_mut(&k).unwrap().push(v): panics when k is absent
get_mut_unwrap_push(m, k, v) ==
    IF k \in DOMAIN m THEN Ok([m EXCEPT ![k] = Append(@, v)]) ELSE Panic

----------------------------------------------------------------------------
(* AddressBook *)

\* AddressBook::new
AddressBook_new == [by_name |-> HashMap_new, by_age |-> HashMap_new]

\* a variant whose default book is not empty
AddressBook_default_stale ==
    LET p == [name |-> "caleb", age |-> 26, phone |-> DEFAULT_PHONE,
              favorite_color |-> "Unknown"]
    IN  [by_name |-> insert(HashMap_default, p.name, p), by_age |-> HashMap_default]

\* impl Default for AddressBook
AddressBook_default == [by_name |-> HashMap_default, by_age |-> HashMap_default]

\* a variant that uses the entry API: the bucket is kept and appended to
add_person_append(b, person) ==
    LET old == IF person.age \in DOMAIN b.by_age THEN b.by_age[person.age] ELSE Vec_new
    IN  Ok([by_name |-> insert(b.by_name, person.name, clone(person)),
            by_age |-> insert(b.by_age, person.age, Append(old, person))])

\* a variant that forgets the push
add_person_no_push(b, person) ==
    Ok([by_name |-> insert(b.by_name, person.name, clone(person)),
        by_age |-> insert(b.by_age, person.age, Vec_new)])

\* a variant that removes the records of person.name from every bucket first
add_person_dedup(b, person) ==
    LET others(v) == SelectSeq(v, LAMBDA q : q.name # person.name)
        by_age0 == [a \in DOMAIN b.by_age |-> others(b.by_age[a])]
    IN  Ok([by_name |-> insert(b.by_name, person.name, clone(person)),
            by_age |-> insert(by_age0, person.age, <<person>>)])

\* a variant that keys by_name by the wrong String field
add_person_color_key(b, person) ==
    Ok([by_name |-> insert(b.by_name, person.favorite_color, clone(person)),
        by_age |-> insert(b.by_age, person.age, <<person>>)])

\* a variant that starts by_age afresh on every call
add_person_clear_ages(b, person) ==
    Ok([by_name |-> insert(b.by_name, person.name, clone(person)),
        by_age |-> insert(HashMap_new, person.age, <<person>>)])

\* AddressBook::add_person: the outcome holds the book after the call
add_person(b, person) ==
    LET by_name1 == insert(b.by_name, person.name, clone(person))
        by_age1 == insert(b.by_age, person.age, Vec_new)
        pushed == get_mut_unwrap_push(by_age1, person.age, person)
    IN  IF pushed.kind = "ok"
        THEN Ok([by_name |-> by_name1, by_age |-> pushed.value])
        ELSE Panic

\* a variant that answers an absent key with some record instead of panicking
index_or_default(b, idx) ==
    IF idx \in DOMAIN b.by_name
    THEN Ok(b.by_name[idx])
    ELSE Ok(CHOOSE p \in Person : TRUE)

\* impl Index<&str> for AddressBook: HashMap's index panics on an absent key
index(b, idx) ==
    IF idx \in DOMAIN b.by_name THEN Ok(b.by_name[idx]) ELSE Panic

Min(x, y) == IF x <= y THEN x ELSE y

\* AddressBook::print_summary_first10_entries: visits at most 10 entries of
\* by_name and does nothing with them; the outcome holds the number visited
print_summary_first10_entries(b) == Ok(Min(10, Cardinality(DOMAIN b.by_name)))

----------------------------------------------------------------------------
(* The store: one book from new(), one from default(), the same calls on both *)

LookupNames == Names \cup {"nobody"}

Init ==
    /\ book = AddressBook_new
    /\ dbook = AddressBook_default
    /\ added = << >>
    /\ input = [kind |-> "none"]
    /\ call = [op |-> "none"]

AddPerson(p) ==
    /\ Len(added) < MaxAdds
    /\ LET r == add_person(book, p)
           d == add_person(dbook, p)
       IN  /\ book' = IF r.kind = "ok" THEN r.value ELSE book
           /\ dbook' = IF d.kind = "ok" THEN d.value ELSE dbook
           /\ call' = [op |-> "add_person", person |-> p,
                       ret |-> r.kind, dret |-> d.kind]
    /\ added' = Append(added, p)
    /\ UNCHANGED input

IndexByName(idx) ==
    /\ call' = [op |-> "index", idx |-> idx,
                ret |-> index(book, idx), dret |-> index(dbook, idx)]
    /\ UNCHANGED <<book, dbook, added, input>>

PrintSummary ==
    /\ call' = [op |-> "print_summary_first10_entries",
                ret |-> print_summary_first10_entries(book),
                dret |-> print_summary_first10_entries(dbook)]
    /\ UNCHANGED <<book, dbook, added, input>>

Next ==
    \/ \E p \in Person : AddPerson(p)
    \/ \E idx \in LookupNames : IndexByName(idx)
    \/ PrintSummary

Spec == Init /\ [][Next]_vars

----------------------------------------------------------------------------
(* Properties of the store *)

InVec(v, x) == \E i \in 1..Len(v) : v[i] = x

\* the positions of the history at which a person named n was added
AddsOf(n) == {i \in 1..Len(added) : added[i].name = n}

Max(S) == CHOOSE x \in S : \A y \in S : y <= x

\* C1: after add_person(r) completes, on any store reached by add_person
\* calls, by_name[r.name] is r and r is a member of by_age[r.age].
C1_AddIndexesRecord ==
    call.op = "add_person" =>
        LET r == call.person
        IN  /\ call.ret = "ok"
            /\ r.name \in DOMAIN book.by_name
            /\ book.by_name[r.name] = r
            /\ r.age \in DOMAIN book.by_age
            /\ InVec(book.by_age[r.age], r)

\* C1 witness: add_person(r) has run on a non-empty store that already held
\* another record under r.name.
C1_Witness ==
    /\ call.op = "add_person"
    /\ Len(added) >= 2
    /\ added[Len(added)] = call.person
    /\ \E i \in 1..(Len(added) - 1) :
           added[i].name = call.person.name /\ added[i] # call.person

\* C2: immediately after add_person(r), by_age[r.age] is exactly <<r>>: a
\* record added earlier with the same age is gone from that bucket.
C2_AgeBucketReplaced ==
    call.op = "add_person" =>
        /\ call.person.age \in DOMAIN book.by_age
        /\ book.by_age[call.person.age] = <<call.person>>

\* C2 witness: A was added, then B of the same age, and B's call is the last.
C2_Witness ==
    /\ call.op = "add_person"
    /\ Len(added) >= 2
    /\ added[Len(added)] = call.person
    /\ added[Len(added) - 1].age = call.person.age
    /\ added[Len(added) - 1] # call.person
    /\ ~InVec(book.by_age[call.person.age], added[Len(added) - 1])

\* r1 = added[i] and r2 = added[j] are the case of a stale age entry: r2 came
\* later under the same name with another age, and no record of r1's age was
\* added after r1.
StaleCase(i, j) ==
    /\ i < j
    /\ added[i].name = added[j].name
    /\ added[i].age # added[j].age
    /\ \A k \in (i + 1)..Len(added) : added[k].age # added[i].age

C4_KeyConsistency ==
    /\ \A n \in DOMAIN book.by_name :
           book.by_name[n] \in Person /\ book.by_name[n].name = n
    /\ \A a \in DOMAIN book.by_age :
           \A i \in 1..Len(book.by_age[a]) :
               book.by_age[a][i] \in Person /\ book.by_age[a][i].age = a

\* C4 witness: both indices hold two keys.
C4_Witness ==
    /\ Cardinality(DOMAIN book.by_name) = 2
    /\ Cardinality(DOMAIN book.by_age) = 2

\* C5: new() and default() both give a book with two empty indices, and the
\* same calls on the two books give the same books and the same outcomes.
C5_NewEqualsDefault ==
    /\ added = << >> =>
           /\ DOMAIN book.by_name = {} /\ DOMAIN book.by_age = {}
           /\ DOMAIN dbook.by_name = {} /\ DOMAIN dbook.by_age = {}
    /\ book = dbook
    /\ call.op # "none" => call.ret = call.dret

\* C5 witness: after two add_person calls a lookup found a record in both.
C5_Witness ==
    /\ Len(added) >= 2
    /\ call.op = "index"
    /\ call.ret.kind = "ok"
    /\ call.dret.kind = "ok"

\* C6 as amended: book[name] returns the record most recently added under
\* exactly that name; for a name never added the call panics: it returns no
\* value at all, and so never a defaulted record.
C6_IndexFindsOrPanics ==
    call.op = "index" =>
        IF AddsOf(call.idx) # {}
        THEN call.ret = Ok(added[Max(AddsOf(call.idx))])
        ELSE call.ret = Panic

\* C6 witness: a name that was never added is looked up in a non-empty book.
C6_Witness ==
    /\ call.op = "index"
    /\ added # << >>
    /\ AddsOf(call.idx) = {}
    /\ call.ret.kind = "panic"

\* C6 as claimed: book[name] returns the record most recently added under
\* that name, and for a name never added it returns to the caller an explicit
\* failure value (a value that is not a record).
C6_IndexReturnsFailureValue ==
    call.op = "index" =>
        IF AddsOf(call.idx) # {}
        THEN call.ret = Ok(added[Max(AddsOf(call.idx))])
        ELSE call.ret.kind = "ok" /\ call.ret.value \notin Person

----------------------------------------------------------------------------
(* The traits of Person *)

\* a variant that compares the names only
eq_name_only(self, other) == self.name = other.name

\* impl PartialEq for Person
eq(self, other) ==
    /\ self.name = other.name
    /\ self.age = other.age
    /\ self.phone = other.phone
    /\ self.favorite_color = other.favorite_color

\* a variant that fills in the color the tests give their persons
Person_from_purple(t) ==
    [name |-> t[1], age |-> t[2], phone |-> DEFAULT_PHONE,
     favorite_color |-> "Purple"]

\* impl From<(String, u8)> for Person
Person_from(t) ==
    [name |-> t[1], age |-> t[2], phone |-> DEFAULT_PHONE,
     favorite_color |-> "Unknown"]

\* (String, u8)::into, which the standard library derives from From
into(t) == Person_from(t)

TupleNames == Names \cup {"", "Unknown"}

\* the arguments of the calls: a (String, u8) pair, or three persons
PersonInputs ==
    [kind : {"tuple"}, name : TupleNames, age : U8]
        \cup [kind : {"persons"}, a : Person, b : Person, c : Person]

InitPerson ==
    /\ book = AddressBook_new
    /\ dbook = AddressBook_default
    /\ added = << >>
    /\ input \in PersonInputs
    /\ call = [op |-> "none"]

\* test_from_into, on the pair drawn
TestFromInto ==
    /\ input.kind = "tuple"
    /\ LET caleb == Person_from(<<input.name, input.age>>)
           caleb2 == into(<<input.name, input.age>>)
       IN  call' = [op |-> "test_from_into",
                    caleb |-> caleb, caleb2 |-> caleb2,
                    phone_eq |-> (caleb.phone = DEFAULT_PHONE),
                    eq |-> eq(caleb, caleb2)]
    /\ UNCHANGED <<book, dbook, added, input>>

\* test_assert_eq_person, on the first person drawn
TestAssertEqPerson ==
    /\ input.kind = "persons"
    /\ LET person1 == input.a
           person2 == clone(person1)
       IN  call' = [op |-> "test_assert_eq_person",
                    person2 |-> person2, eq |-> eq(person1, person2)]
    /\ UNCHANGED <<book, dbook, added, input>>

\* == on the pairs of the three persons drawn
EqCalls ==
    /\ input.kind = "persons"
    /\ LET a == input.a
           b == input.b
           c == input.c
       IN  call' = [op |-> "eq",
                    aa |-> eq(a, a), ab |-> eq(a, b), ba |-> eq(b, a),
                    bc |-> eq(b, c), ac |-> eq(a, c)]
    /\ UNCHANGED <<book, dbook, added, input>>

NextPerson ==
    \/ TestFromInto
    \/ TestAssertEqPerson
    \/ EqCalls

SpecPerson == InitPerson /\ [][NextPerson]_vars

\* the number of fields in which two persons differ
FieldsDiffering(a, b) ==
    Cardinality({f \in {"name", "age", "phone", "favorite_color"} : a[f] # b[f]})

\* C7: Person::from((name, age)) has that name and age, the phone
\* [5,5,5,5,5,5,5,5,5,5] and the color "Unknown", and (name, age).into()
\* gives a record equal to it.
C7_FromTupleDefaults ==
    call.op = "test_from_into" =>
        /\ call.caleb.name = input.name
        /\ call.caleb.age = input.age
        /\ call.caleb.phone = <<5, 5, 5, 5, 5, 5, 5, 5, 5, 5>>
        /\ call.caleb.favorite_color = "Unknown"
        /\ call.phone_eq
        /\ call.eq
        /\ call.caleb2 = call.caleb

\* C7 witness: the conversion of ("caleb", 26) has run.
C7_Witness ==
    /\ call.op = "test_from_into"
    /\ input.name = "caleb"
    /\ input.age = 26
    /\ call.caleb2.favorite_color = "Unknown"

\* C8: == on persons is reflexive, symmetric and transitive, it holds exactly
\* when all four fields are equal, so not when one field differs, and a clone
\* equals its original.
C8_EqIsStructural ==
    /\ call.op = "eq" =>
           /\ call.aa
           /\ call.ab <=> call.ba
           /\ (call.ab /\ call.bc) => call.ac
           /\ call.ab <=> (FieldsDiffering(input.a, input.b) = 0)
           /\ FieldsDiffering(input.a, input.b) = 1 => ~call.ab
    /\ call.op = "test_assert_eq_person" =>
           call.eq /\ FieldsDiffering(input.a, call.person2) = 0

\* C8 witness: a and b differ in the phone alone and compare unequal, while b
\* and c have equal fields and compare equal.
C8_Witness ==
    /\ call.op = "eq"
    /\ input.a.phone # input.b.phone
    /\ FieldsDiffering(input.a, input.b) = 1
    /\ ~call.ab
    /\ call.bc

----------------------------------------------------------------------------
(* PhoneNumber, Person2 and the Summary traits *)

\* struct Person2: its phone is a PhoneNumber, the wrapper of a [u8; 10]
Person2 == [name : Names, age : Ages, phone : Phones, favorite_color : {"Purple"}]

\* the vectors of at most n elements of S
RECURSIVE VecsUpTo(_, _)
VecsUpTo(S, n) ==
    IF n = 0
    THEN {<< >>}
    ELSE LET shorter == VecsUpTo(S, n - 1)
         IN  shorter \cup {Append(v, x) : v \in {w \in shorter : Len(w) = n - 1}, x \in S}

\* the values that implement Summary, each with its type
Summarizable ==
    [ty : {"PhoneNumber"}, val : Phones]
        \cup [ty : {"Person2"}, val : Person2]
        \cup [ty : {"Vec<Person2>"}, val : VecsUpTo(Person2, MaxVecLen)]
        \cup [ty : {"AddressBook"}, val : {AddressBook_new}]

DigitChars == <<"0", "1", "2", "3", "4", "5", "6", "7", "8", "9">>

\* Display of an unsigned integer: its decimal digits, no leading zero
RECURSIVE fmt_uint(_)
fmt_uint(n) ==
    IF n < 10 THEN DigitChars[n + 1] ELSE fmt_uint(n \div 10) \o DigitChars[(n % 10) + 1]

\* the elements of a from position i on, each in its Debug form, joined by ", "
RECURSIVE fmt_entries(_, _)
fmt_entries(a, i) ==
    IF i > Len(a) THEN ""
    ELSE IF i = Len(a) THEN fmt_uint(a[i])
    ELSE fmt_uint(a[i]) \o ", " \o fmt_entries(a, i + 1)

\* format!("{:?}", a) of an array of u8
fmt_debug_array(a) == "[" \o fmt_entries(a, 1) \o "]"

\* unimplemented!()
unimplemented == Panic

\* impl Summary for PhoneNumber
PhoneNumber_short_summary(self) == Ok(fmt_debug_array(self))

PhoneNumber_long_summary(self) == PhoneNumber_short_summary(self)

\* a variant whose test of `lines` is off by one
PhoneNumber_summary_in_lines_gt1(self, lines) ==
    IF lines > 1 THEN PhoneNumber_short_summary(self) ELSE Ok("")

PhoneNumber_summary_in_lines(self, lines) ==
    IF lines > 0 THEN PhoneNumber_short_summary(self) ELSE Ok("")

\* impl Summary for Person2
Person2_short_summary(self) ==
    Ok("Person: " \o self.name \o ", age " \o fmt_uint(self.age))

Person2_long_summary(self) ==
    LET phone == PhoneNumber_short_summary(self.phone)
    IN  IF phone.kind = "ok"
        THEN Ok("Person: " \o self.name \o ", age " \o fmt_uint(self.age)
                    \o ", phone " \o phone.value)
        ELSE Panic

Person2_summary_in_lines(self, lines) == unimplemented

\* impl Summary for Vec<Person2>
Vec_short_summary(self) == unimplemented

Vec_long_summary(self) == unimplemented

\* the loop of summary_in_lines from element i on, `result` built so far:
\* a panic of an element's summary_in_lines(1) ends the call
RECURSIVE Vec_summary_loop(_, _, _, _)
Vec_summary_loop(self, lines, i, result) ==
    IF i > Min(lines, Len(self))
    THEN Ok(result)
    ELSE LET item == Person2_summary_in_lines(self[i], 1)
         IN  IF item.kind = "ok"
             THEN Vec_summary_loop(self, lines, i + 1, result \o item.value)
             ELSE Panic

\* a variant without take(lines): the loop runs over every element
Vec_summary_in_lines_all(self, lines) == Vec_summary_loop(self, Len(self), 1, "")

Vec_summary_in_lines(self, lines) == Vec_summary_loop(self, lines, 1, "")

\* impl Summary for AddressBook
AddressBook_short_summary(self) == unimplemented

AddressBook_long_summary(self) == unimplemented

AddressBook_summary_in_lines(self, lines) == unimplemented

\* the required methods of the trait, on a value of any implementing type
short_summary(x) ==
    CASE x.ty = "PhoneNumber" -> PhoneNumber_short_summary(x.val)
      [] x.ty = "Person2" -> Person2_short_summary(x.val)
      [] x.ty = "Vec<Person2>" -> Vec_short_summary(x.val)
      [] x.ty = "AddressBook" -> AddressBook_short_summary(x.val)

long_summary(x) ==
    CASE x.ty = "PhoneNumber" -> PhoneNumber_long_summary(x.val)
      [] x.ty = "Person2" -> Person2_long_summary(x.val)
      [] x.ty = "Vec<Person2>" -> Vec_long_summary(x.val)
      [] x.ty = "AddressBook" -> AddressBook_long_summary(x.val)

summary_in_lines(x, lines) ==
    CASE x.ty = "PhoneNumber" -> PhoneNumber_summary_in_lines(x.val, lines)
      [] x.ty = "Person2" -> Person2_summary_in_lines(x.val, lines)
      [] x.ty = "Vec<Person2>" -> Vec_summary_in_lines(x.val, lines)
      [] x.ty = "AddressBook" -> AddressBook_summary_in_lines(x.val, lines)

\* a variant that derives the summary from short_summary
summary_in_10_lines_short(x) == short_summary(x)

\* trait Summary2: the derived method, on the required methods above
summary_in_10_lines(x) == summary_in_lines(x, 10)

SummaryInputs == [kind : {"summary"}, self : Summarizable, lines : 0..MaxLines]

InitSummary ==
    /\ book = AddressBook_new
    /\ dbook = AddressBook_default
    /\ added = << >>
    /\ input \in SummaryInputs
    /\ call = [op |-> "none"]

\* the three required methods, called on the value and the `lines` drawn
Summarize ==
    /\ input.kind = "summary"
    /\ call' = [op |-> "summary",
                short |-> short_summary(input.self),
                long |-> long_summary(input.self),
                in_lines |-> summary_in_lines(input.self, input.lines)]
    /\ UNCHANGED <<book, dbook, added, input>>

\* the derived method, called on the value drawn
SummarizeIn10Lines ==
    /\ input.kind = "summary"
    /\ call' = [op |-> "summary_in_10_lines",
                ret |-> summary_in_10_lines(input.self)]
    /\ UNCHANGED <<book, dbook, added, input>>

NextSummary ==
    \/ Summarize
    \/ SummarizeIn10Lines

SpecSummary == InitSummary /\ [][NextSummary]_vars

\* C9: on a value of any type with the three required methods,
\* summary_in_10_lines() has the outcome of summary_in_lines(10): the same
\* string, or a panic when that call panics.
C9_DerivedIsInLines10 ==
    call.op = "summary_in_10_lines" =>
        call.ret = summary_in_lines(input.self, 10)

\* C9 witness: the derived method has returned a non-empty string on one
\* type, and (C9_WitnessPanic) has panicked on another.
C9_Witness ==
    /\ call.op = "summary_in_10_lines"
    /\ input.self.ty = "PhoneNumber"
    /\ call.ret.kind = "ok"
    /\ call.ret.value # ""

C9_WitnessPanic ==
    /\ call.op = "summary_in_10_lines"
    /\ input.self.ty = "Vec<Person2>"
    /\ call.ret.kind = "panic"

\* the Debug form of the two phones of the model, written out
DebugOfPhone(p) ==
    IF p = <<5, 5, 5, 5, 5, 5, 5, 5, 5, 5>>
    THEN "[5, 5, 5, 5, 5, 5, 5, 5, 5, 5]"
    ELSE "[2, 1, 5, 0, 9, 8, 255, 12, 100, 7]"

\* C10: on a PhoneNumber, summary_in_lines(0) is the empty string, and for
\* n > 0 summary_in_lines(n) is one non-empty string whatever n is: the
\* Debug form of the ten bytes, which short_summary and long_summary return.
C10_PhoneSummary ==
    (call.op = "summary" /\ input.self.ty = "PhoneNumber") =>
        /\ input.lines = 0 => call.in_lines = Ok("")
        /\ input.lines > 0 =>
               /\ call.in_lines = Ok(DebugOfPhone(input.self.val))
               /\ call.in_lines.value # ""
               /\ call.in_lines = call.short
               /\ call.in_lines = call.long

\* C10 witness: summary_in_lines(1) of a phone with bytes of one, two and
\* three digits has returned its Debug form.
C10_Witness ==
    /\ call.op = "summary"
    /\ input.self.ty = "PhoneNumber"
    /\ input.self.val # DEFAULT_PHONE
    /\ input.lines = 1
    /\ call.in_lines.kind = "ok"
    /\ Len(call.in_lines.value) = 35

C10_WitnessZero ==
    /\ call.op = "summary"
    /\ input.self.ty = "PhoneNumber"
    /\ input.lines = 0
    /\ call.in_lines = Ok("")

\* the outcomes of summary_in_lines(1) on the first k elements of v
ItemSummaries(v, k) == [i \in 1..k |-> Person2_summary_in_lines(v[i], 1)]

\* the strings of the outcomes its, from position i on, one after the other
RECURSIVE ConcatValues(_, _)
ConcatValues(its, i) ==
    IF i > Len(its) THEN "" ELSE its[i].value \o ConcatValues(its, i + 1)

\* C11 as amended: v.summary_in_lines(n) on a Vec<Person2> returns the empty
\* string when n = 0 or v is empty; otherwise it panics, because the
\* summary_in_lines(1) of its first element is unimplemented, and returns no
\* string.
C11_VecSummaryEmptyOrPanics ==
    (call.op = "summary" /\ input.self.ty = "Vec<Person2>") =>
        IF Min(input.lines, Len(input.self.val)) = 0
        THEN call.in_lines = Ok("")
        ELSE call.in_lines = Panic

\* C11 witness: summary_in_lines(n) with n >= 1 has run on a vector of two
\* persons and has panicked.
C11_Witness ==
    /\ call.op = "summary"
    /\ input.self.ty = "Vec<Person2>"
    /\ Len(input.self.val) = 2
    /\ input.lines >= 1
    /\ call.in_lines.kind = "panic"

\* C11 as claimed: for every v and n, v.summary_in_lines(n) returns a string,
\* the concatenation in order of summary_in_lines(1) of the first
\* min(n, len(v)) elements.
C11_VecSummaryIsConcatenation ==
    (call.op = "summary" /\ input.self.ty = "Vec<Person2>") =>
        LET its == ItemSummaries(input.self.val,
                                 Min(input.lines, Len(input.self.val)))
        IN  /\ call.in_lines.kind = "ok"
            /\ \A i \in 1..Len(its) : its[i].kind = "ok"
            /\ call.in_lines.value = ConcatValues(its, 1)

\* the keys of map m other than k keep their values from m to n, and n has
\* no key beyond those of m and k
OnlyKeyTouched(m, n, k) ==
    /\ DOMAIN n \subseteq (DOMAIN m) \cup {k}
    /\ \A x \in (DOMAIN m) \ {k} : x \in DOMAIN n /\ n[x] = m[x]

\* C12: a step that changes the book is an add_person call; add_person(r)
\* leaves every by_name entry of a key other than r.name and every by_age
\* bucket of a key other than r.age as it was; the lookup by name and
\* print_summary_first10_entries leave both indices unchanged.
C12_Frame ==
    [][ /\ book' # book => call'.op = "add_person"
        /\ (call'.op = "add_person" /\ added' # added) =>
               /\ OnlyKeyTouched(book.by_name, book'.by_name, call'.person.name)
               /\ OnlyKeyTouched(book.by_age, book'.by_age, call'.person.age)
        /\ call'.op \in {"index", "print_summary_first10_entries"} =>
               book'.by_name = book.by_name /\ book'.by_age = book.by_age
      ]_vars

\* C12 witness: add_person(r) has run on a book that holds another name and
\* another age than r's.
C12_Witness ==
    /\ call.op = "add_person"
    /\ \E n \in DOMAIN book.by_name : n # call.person.name
    /\ \E a \in DOMAIN book.by_age :
           a # call.person.age /\ book.by_age[a] # << >>

=============================================================================
